---- MODULE Spec2Model ----
(***************************************************************************)
(* Verification model of niviz: the view composers of common/plot.py and   *)
(* interfaces/volume.py, the FreeSurfer parcellation recolorer of          *)
(* interfaces/freesurfer.py + interfaces/mixins.py, the surface/volume    *)
(* coregistration report and the surface map report of                     *)
(* interfaces/surface.py, and the batch command svg_util of make_svgs.py.  *)
(*                                                                         *)
(* A request (the arguments of one call, or the inputs of one report       *)
(* interface) is drawn by Init; one action per function runs the whole     *)
(* function on it and records what it returned, what it handed to the      *)
(* rendering backend and the object fields it set.  svg_util runs its jobs *)
(* one step at a time.                                                     *)
(*                                                                         *)
(* Units: intensities are integers in units of 1e-4, coordinates are       *)
(* integers in units of 1e-3 mm (cuts_from_bbox rounds to 3 decimals), the *)
(* affine of every volume is the identity with 1 mm voxels.                *)
(***************************************************************************)
EXTENDS Integers, Sequences, FiniteSets, TLC

VARIABLES req, out, pc

vars == <<req, out, pc>>

(***************************************************************************)
(* Bounds of the model.                                                    *)
(***************************************************************************)
Dim == 3
MaxCuts == 15
MaxCols == 5
MaxViewCuts == 3

(***************************************************************************)
(* Generic helpers.                                                        *)
(***************************************************************************)
Min(a, b) == IF a <= b THEN a ELSE b

SetMin(S) == CHOOSE m \in S : \A y \in S : m <= y

SetMax(S) == CHOOSE m \in S : \A y \in S : y <= m

Range(s) == {s[i] : i \in DOMAIN s}

\* round(a / b) for b > 0, halves to even (numpy.around)
RoundDiv(a, b) ==
    LET q == a \div b
        r == a % b
    IN  IF 2 * r < b THEN q
        ELSE IF 2 * r > b THEN q + 1
        ELSE IF q % 2 = 0 THEN q ELSE q + 1

\* Python's s[a:b] for 0 <= a, on a TLA+ sequence (1-based)
PySlice(s, a, b) == SubSeq(s, a + 1, Min(b, Len(s)))

\* Python's range(n) as the sequence <<0, ..., n-1>>
PyRange(n) == [i \in 1..n |-> i - 1]

(***************************************************************************)
(* Volumes: ndim and one 3-D array of intensities per index of the 4th     *)
(* axis (a 3-D volume has exactly one).  None is the absent argument.      *)
(***************************************************************************)
Axis == 0..(Dim - 1)

Grid == Axis \X Axis \X Axis

None == [ndim |-> 0, frames |-> <<>>]

Img3(arr) == [ndim |-> 3, frames |-> <<arr>>]

Img4(arr1, arr2) == [ndim |-> 4, frames |-> <<arr1, arr2>>]

\* intensity `inside` in the box b (one <<lo, hi>> per axis), `outside` elsewhere
BoxArr(b, inside, outside) ==
    [v \in Grid |->
        IF \A a \in 1..3 : b[a][1] <= v[a] /\ v[a] <= b[a][2]
        THEN inside ELSE outside]

\* a foreground intensity (5.0) and one under the threshold (5e-4)
Bright == 5 * 10000
Weak == 10 \div 2

FullBox == <<<<0, Dim - 1>>, <<0, Dim - 1>>, <<0, Dim - 1>>>>
InnerBox == <<<<1, 1>>, <<1, 1>>, <<1, 1>>>>
SlabBox == <<<<0, Dim - 1>>, <<0, Dim - 1>>, <<0, 0>>>>
SkewBox == <<<<0, 1>>, <<1, Dim - 1>>, <<0, Dim - 1>>>>

FullArr == BoxArr(FullBox, Bright, Bright)
HaloArr == BoxArr(InnerBox, Bright, Weak)
SlabArr == BoxArr(SlabBox, Bright, 0)
SkewArr == BoxArr(SkewBox, Bright - 1, 0)
TopArr == BoxArr(SkewBox, 0, Bright)
ZeroArr == BoxArr(FullBox, 0, 0)

Volumes3 == {Img3(FullArr), Img3(HaloArr), Img3(SlabArr), Img3(SkewArr),
             Img3(TopArr), Img3(ZeroArr)}

Volumes4 == {Img4(SkewArr, FullArr), Img4(HaloArr, SlabArr)}

\* companion volumes (brain masks) a caller may pass as bbox_nii
Masks == {Img3(BoxArr(InnerBox, 2 * Weak * 1000, 0)),
          Img3(BoxArr(SkewBox, 2 * Weak * 1000, 0))}

(***************************************************************************)
(* External collaborators, by their contract.                              *)
(***************************************************************************)
\* nilearn.image.threshold_img(img, t): intensities below t become 0
threshold_img(img, t) ==
    [ndim |-> img.ndim,
     frames |-> [f \in DOMAIN img.frames |->
                    [v \in Grid |-> IF img.frames[f][v] < t THEN 0
                                    ELSE img.frames[f][v]]]]

AxisNames == {"x", "y", "z"}

AxisIndex(d) == CASE d = "x" -> 1 [] d = "y" -> 2 [] d = "z" -> 3

\* niworkflows.viz.utils.cuts_from_bbox(mask_nii, cuts): per axis, `cuts`
\* coordinates evenly spaced strictly inside the extent of the planes that
\* hold foreground (enough of it, or any of it when that leaves too few
\* planes); the whole axis when there is no foreground at all.
\* (helpers take what they share as arguments, which are evaluated once)
Foreground(count, th, cuts) ==
    LET B1 == {i \in Axis : count[i] > th}
    IN  IF Cardinality(B1) < cuts THEN {i \in Axis : count[i] > 0} ELSE B1

Extent(B) ==
    IF B = {} THEN <<0, Dim - 1>> ELSE <<SetMin(B), SetMax(B)>>

PlaneCounts(arr, ax) ==
    [i \in Axis |-> Cardinality({v \in Grid : v[ax] = i /\ arr[v] > 0})]

PlaneThreshold(ax) ==
    CASE ax = 1 -> (2 * Dim * Dim + 9) \div 10
      [] ax = 2 -> (1 * Dim * Dim + 9) \div 10
      [] ax = 3 -> (3 * Dim * Dim + 9) \div 10

Linspace(ext, cuts) ==
    [k \in 1..cuts |->
        RoundDiv(1000 * (ext[1] * (cuts + 1) + (ext[2] - ext[1]) * k), cuts + 1)]

cuts_from_bbox(mask_nii, cuts) ==
    [d \in AxisNames |->
        Linspace(Extent(Foreground(PlaneCounts(mask_nii.frames[1], AxisIndex(d)),
                                   PlaneThreshold(AxisIndex(d)), cuts)),
                 cuts)]

\* k-th smallest (0-based) value of the flattened array
KthSmallest(arr, k) ==
    CHOOSE x \in Range(arr) :
        /\ Cardinality({v \in DOMAIN arr : arr[v] < x}) <= k
        /\ k < Cardinality({v \in DOMAIN arr : arr[v] <= x})

\* niworkflows.viz.utils.robust_set_limits(data, {}): vmin / vmax keyword
\* arguments from the 15th and 99.8th percentile of the sample (lower
\* nearest rank here)
robust_set_limits(img) ==
    LET arr == img.frames[1]
        n == Cardinality(DOMAIN arr)
    IN  {<<"vmin", KthSmallest(arr, (15 * (n - 1)) \div 100)>>,
         <<"vmax", KthSmallest(arr, (998 * (n - 1)) \div 1000)>>}

(***************************************************************************)
(* common/plot.py                                                          *)
(***************************************************************************)
Threshold == 10

\* f"{figure_title}-{d}"
OrthoTitle(figure_title, d) == figure_title \o "-" \o d

\* mutant: the title names the last index of the row, not one past it
MontageTitle_inclusive(figure_title, start, end) ==
    figure_title \o ":" \o ToString(start) \o "-" \o ToString(end - 1)

\* f"{figure_title}:{start}-{end}"
MontageTitle(figure_title, start, end) ==
    figure_title \o ":" \o ToString(start) \o "-" \o ToString(end)

\* the box volume both functions fall back to when bbox_nii is None
DefaultBbox(data, bbox_nii) ==
    IF bbox_nii = None THEN threshold_img(data, Threshold) ELSE bbox_nii

\* mutant: the window is estimated whether or not the caller asked for it
RobustParams_always(auto_brightness, bbox_nii) == robust_set_limits(bbox_nii)

\* robust_params of both functions
RobustParams(auto_brightness, bbox_nii) ==
    IF auto_brightness THEN robust_set_limits(bbox_nii) ELSE {}

\* the cut coordinates plot_orthogonal_views slices at
OrthoCuts(data, bbox_nii, n_cuts) == cuts_from_bbox(data, n_cuts)

\* the cut coordinates plot_montage slices at
MontageCuts(data, bbox_nii, n_cuts) == cuts_from_bbox(bbox_nii, n_cuts)

\* what plot_func(data, **plot_params) was asked to draw, and the title the
\* extracted svg was given
Panel(data, d, cut_coords, kwargs, title, plot_func) ==
    [data |-> data, display_mode |-> d, cut_coords |-> cut_coords,
     kwargs |-> kwargs, title |-> title, plot_func |-> plot_func]

\* mutant: every panel is cut at the coordinates of the first listed axis
OrthoPanels_first_axis(data, display_modes, cuts, robust_params, figure_title) ==
    [i \in 1..Len(display_modes) |->
        Panel(data, display_modes[i], cuts[display_modes[1]], robust_params,
              OrthoTitle(figure_title, display_modes[i]), "plot_anat")]

OrthoPanels(data, display_modes, cuts, robust_params, figure_title) ==
    [i \in 1..Len(display_modes) |->
        Panel(data, display_modes[i], cuts[display_modes[i]], robust_params,
              OrthoTitle(figure_title, display_modes[i]), "plot_anat")]

OrthoWithBbox(data, bbox_nii, auto_brightness, display_modes, n_cuts, figure_title) ==
    OrthoPanels(data, display_modes, OrthoCuts(data, bbox_nii, n_cuts),
                RobustParams(auto_brightness, bbox_nii), figure_title)

plot_orthogonal_views(data, bbox_nii, auto_brightness, display_modes, n_cuts, figure_title) ==
    OrthoWithBbox(data, DefaultBbox(data, bbox_nii), auto_brightness,
                  display_modes, n_cuts, figure_title)

\* Python's n // m for a divisor that is not 0
PyFloorDiv(n, m) == IF m > 0 THEN n \div m ELSE (0 - n) \div (0 - m)

\* the row indices plot_montage loops over
MontageRows(n_cuts, n_cols) == PyRange(PyFloorDiv(n_cuts, n_cols))

\* one iteration of the loop of plot_montage
MontageRow(data, orientation, cuts, robust_params, i, n_cuts, n_cols, figure_title) ==
    LET start == i * n_cols
        end == Min(i * n_cols + n_cols, n_cuts)
        row_cuts == PySlice(cuts[orientation], start, end)
    IN  [start |-> start, end |-> end] @@
        Panel(data, orientation, row_cuts, robust_params,
              MontageTitle(figure_title, start, end), "plot_anat")

MontagePanels(data, orientation, cuts, robust_params, rows, n_cuts, n_cols, figure_title) ==
    [r \in 1..Len(rows) |->
        MontageRow(data, orientation, cuts, robust_params, rows[r], n_cuts,
                   n_cols, figure_title)]

MontageWithBbox(data, orientation, bbox_nii, n_cuts, n_cols, auto_brightness, figure_title) ==
    MontagePanels(data, orientation, MontageCuts(data, bbox_nii, n_cuts),
                  RobustParams(auto_brightness, bbox_nii),
                  MontageRows(n_cuts, n_cols), n_cuts, n_cols, figure_title)

plot_montage(data, orientation, bbox_nii, n_cuts, n_cols, auto_brightness, figure_title) ==
    MontageWithBbox(data, orientation, DefaultBbox(data, bbox_nii), n_cuts,
                    n_cols, auto_brightness, figure_title)

NoError == [type |-> "", key |-> 0]

\* a call of plot_montage with the exception it raises, if any: a negative
\* n_cuts fails in np.zeros((4, cuts)) of cuts_from_bbox, n_cols = 0 in
\* n_cuts // n_cols; no count is validated
MontageCall(data, orientation, bbox_nii, n_cuts, n_cols, auto_brightness, figure_title) ==
    IF n_cuts < 0
    THEN [svgs |-> <<>>, err |-> [type |-> "ValueError", key |-> n_cuts]]
    ELSE IF n_cols = 0
    THEN [svgs |-> <<>>, err |-> [type |-> "ZeroDivisionError", key |-> n_cols]]
    ELSE [svgs |-> plot_montage(data, orientation, bbox_nii, n_cuts, n_cols,
                                auto_brightness, figure_title),
          err |-> NoError]

(***************************************************************************)
(* interfaces/volume.py                                                    *)
(***************************************************************************)
\* nii.slicer[:, :, :, ind] of a 4-D image, the image itself otherwise
_make_3d_from_4d(nii, ind) ==
    IF nii.ndim < 4 THEN nii
    ELSE [ndim |-> 3, frames |-> <<nii.frames[ind + 1]>>]

\* the loop of IAnatRPT._generate_report / IFuncRPT._generate_report
ReportPanels(data, display_modes, cuts, robust_params, prefix, plot_func) ==
    [i \in 1..Len(display_modes) |->
        Panel(data, display_modes[i], cuts[display_modes[i]], robust_params,
              prefix \o "-" \o display_modes[i], plot_func)]

AnatOf3d(data, n_cuts, display_modes) ==
    ReportPanels(data, display_modes,
                 cuts_from_bbox(threshold_img(data, Threshold), n_cuts),
                 robust_set_limits(data), "anatomical", "plot_anat")

IAnatRPT_generate_report(nii, n_cuts, display_modes) ==
    AnatOf3d(IF nii.ndim = 4 THEN _make_3d_from_4d(nii, 0) ELSE nii,
             n_cuts, display_modes)

FuncOf3d(data, n_cuts, display_modes) ==
    ReportPanels(data, display_modes,
                 cuts_from_bbox(threshold_img(data, Threshold), n_cuts),
                 {}, "functional", "plot_epi")

IFuncRPT_generate_report(nii, n_cuts, display_modes) ==
    FuncOf3d(_make_3d_from_4d(nii, 0), n_cuts, display_modes)

(***************************************************************************)
(* Requests and actions of the plot specification.                         *)
(***************************************************************************)
DisplayModeLists ==
    {s \in UNION {[1..n -> AxisNames] : n \in 0..3} :
        \A i, j \in DOMAIN s : i # j => s[i] # s[j]}

OrthoRequests ==
    [op : {"plot_orthogonal_views"}, data : Volumes3,
     bbox_nii : {None} \cup Masks, auto_brightness : BOOLEAN,
     display_modes : DisplayModeLists, n_cuts : 1..MaxViewCuts,
     figure_title : {"", "T1w"}]

MontageRequests ==
    [op : {"plot_montage"}, data : Volumes3, orientation : AxisNames,
     bbox_nii : {None} \cup Masks, n_cuts : 1..MaxCuts, n_cols : 1..MaxCols,
     auto_brightness : BOOLEAN, figure_title : {"figure"}]

ReportRequests ==
    [op : {"IAnatRPT", "IFuncRPT"}, nii : Volumes3 \cup Volumes4,
     n_cuts : 1..MaxViewCuts, display_modes : DisplayModeLists]

NoOut == [svgs |-> <<>>]

InitPlot ==
    /\ req \in OrthoRequests \cup MontageRequests \cup ReportRequests
    /\ out = NoOut
    /\ pc = "ready"

CallOrthogonalViews ==
    /\ pc = "ready"
    /\ req.op = "plot_orthogonal_views"
    /\ out' = [svgs |-> plot_orthogonal_views(req.data, req.bbox_nii,
                            req.auto_brightness, req.display_modes,
                            req.n_cuts, req.figure_title)]
    /\ pc' = "done"
    /\ UNCHANGED req

CallMontage ==
    /\ pc = "ready"
    /\ req.op = "plot_montage"
    /\ out' = MontageCall(req.data, req.orientation, req.bbox_nii, req.n_cuts,
                           req.n_cols, req.auto_brightness, req.figure_title)
    /\ pc' = IF out'.err = NoError THEN "done" ELSE "failed"
    /\ UNCHANGED req

\* compose_view(svgs, fg_svgs=None, out_file=self._out_report) writes the
\* panels it is given
RunIAnatRPT ==
    /\ pc = "ready"
    /\ req.op = "IAnatRPT"
    /\ out' = [svgs |-> IAnatRPT_generate_report(req.nii, req.n_cuts,
                                                 req.display_modes)]
    /\ pc' = "done"
    /\ UNCHANGED req

RunIFuncRPT ==
    /\ pc = "ready"
    /\ req.op = "IFuncRPT"
    /\ out' = [svgs |-> IFuncRPT_generate_report(req.nii, req.n_cuts,
                                                 req.display_modes)]
    /\ pc' = "done"
    /\ UNCHANGED req

NextPlot ==
    \/ CallOrthogonalViews
    \/ CallMontage
    \/ RunIAnatRPT
    \/ RunIFuncRPT

SpecPlot == InitPlot /\ [][NextPlot]_vars

(***************************************************************************)
(* Claims about the view composers (checked under SpecPlot).               *)
(***************************************************************************)
MontageDone == pc = "done" /\ req.op = "plot_montage"

OrthoDone == pc = "done" /\ req.op = "plot_orthogonal_views"

\* the box the specification prescribes: the companion volume when one is
\* given, the rendered volume thresholded at 1e-3 otherwise
PrescribedBox ==
    IF req.bbox_nii = None THEN threshold_img(req.data, Threshold)
    ELSE req.bbox_nii

\* the cut indices a montage row was rendered from
RowIndices(panel) == panel.start .. (panel.end - 1)

\* C1: for every N >= 1 and C >= 1 plot_montage returns exactly ceil(N/C)
\* row panels (N=7, C=5 gives 2 rows; N=3, C=5 gives 1 row).
C1_RowCountIsCeil ==
    MontageDone =>
        Len(out.svgs) = (req.n_cuts + req.n_cols - 1) \div req.n_cols

\* C2: the index ranges [start, end) of the rendered rows are contiguous and
\* pairwise non-overlapping, their union is exactly [0, N), every row but
\* the last holds exactly C cuts and, when C does not divide N, the last row
\* holds the N mod C remaining cuts.
C2_RowsPartitionAllCuts ==
    MontageDone =>
        LET rows == out.svgs
            n == Len(rows)
        IN  /\ \A r \in 1..n : Len(rows[r].cut_coords) = rows[r].end - rows[r].start
            /\ \A r \in 1..(n - 1) : rows[r].end = rows[r + 1].start
            /\ \A r, q \in 1..n :
                    r # q => RowIndices(rows[r]) \cap RowIndices(rows[q]) = {}
            /\ UNION {RowIndices(rows[r]) : r \in 1..n} = 0..(req.n_cuts - 1)
            /\ \A r \in 1..(n - 1) : Len(rows[r].cut_coords) = req.n_cols
            /\ req.n_cuts % req.n_cols # 0 =>
                    /\ n >= 1
                    /\ Len(rows[n].cut_coords) = req.n_cuts % req.n_cols

\* C3: every row panel plot_montage produces is titled
\* "<figure_title>:<start>-<end>" where [start, end) is exactly the range of
\* cut indices rendered in that row (start = row_index * C,
\* end = min(start + C, N)); for N=15, C=5 the titles carry 0-5, 5-10, 10-15.
C3_RowTitles ==
    MontageDone =>
        LET all == MontageCuts(req.data, DefaultBbox(req.data, req.bbox_nii),
                               req.n_cuts)[req.orientation]
        IN  /\ \A r \in 1..Len(out.svgs) :
                    LET start == (r - 1) * req.n_cols
                        end == Min(start + req.n_cols, req.n_cuts)
                    IN  /\ out.svgs[r].title =
                              req.figure_title \o ":" \o ToString(start)
                                  \o "-" \o ToString(end)
                        /\ out.svgs[r].cut_coords =
                              [k \in 1..(end - start) |-> all[start + k]]
            /\ (req.n_cuts = 15 /\ req.n_cols = 5) =>
                    [r \in 1..Len(out.svgs) |-> out.svgs[r].title] =
                        <<"figure:0-5", "figure:5-10", "figure:10-15">>

C3_Witness ==
    /\ MontageDone
    /\ req.n_cuts = 15
    /\ req.n_cols = 5
    /\ Len(out.svgs) = 3
    /\ out.svgs[3].title = "figure:10-15"
    /\ Len(out.svgs[3].cut_coords) = 5

\* C7: in both plot_orthogonal_views and plot_montage, when the caller gives
\* a companion volume bbox_nii the cut coordinates come from bbox_nii's
\* bounding box (not from data) while the panels are rendered from data;
\* without bbox_nii the box comes from data thresholded at 1e-3.
C7_CutsFromCompanionBox ==
    (MontageDone \/ OrthoDone) =>
        LET cuts == cuts_from_bbox(PrescribedBox, req.n_cuts)
        IN  \A i \in 1..Len(out.svgs) :
                /\ out.svgs[i].data = req.data
                /\ out.svgs[i].cut_coords =
                      IF req.op = "plot_montage"
                      THEN PySlice(cuts[req.orientation], out.svgs[i].start,
                                   out.svgs[i].end)
                      ELSE cuts[out.svgs[i].display_mode]

\* C8: for every display-mode list plot_orthogonal_views returns exactly one
\* panel per listed axis, in the listed order, each rendered with that axis's
\* own cut coordinates and titled "<figure_title>-<axis>".
C8_OnePanelPerAxis ==
    OrthoDone =>
        LET cuts == OrthoCuts(req.data, DefaultBbox(req.data, req.bbox_nii),
                              req.n_cuts)
        IN  /\ Len(out.svgs) = Len(req.display_modes)
            /\ \A i \in 1..Len(req.display_modes) :
                    /\ out.svgs[i].display_mode = req.display_modes[i]
                    /\ out.svgs[i].cut_coords = cuts[req.display_modes[i]]
                    /\ out.svgs[i].title =
                          req.figure_title \o "-" \o req.display_modes[i]

C8_Witness ==
    /\ OrthoDone
    /\ req.display_modes = <<"z", "x">>
    /\ req.figure_title = "T1w"
    /\ Len(out.svgs) = 2
    /\ out.svgs[1].title = "T1w-z"
    /\ out.svgs[1].cut_coords # out.svgs[2].cut_coords

\* C9: the intensity window is skippable and shared: with auto_brightness
\* False, and in the functional report, no intensity-window parameter reaches
\* the renderer for any panel; when enabled the window is computed once per
\* invocation and the identical window is passed to every panel.
C9_WindowSkippableAndShared ==
    /\ (MontageDone \/ OrthoDone) =>
           \A i \in 1..Len(out.svgs) :
               out.svgs[i].kwargs =
                   IF req.auto_brightness
                   THEN robust_set_limits(DefaultBbox(req.data, req.bbox_nii))
                   ELSE {}
    /\ (pc = "done" /\ req.op = "IFuncRPT") =>
           \A i \in 1..Len(out.svgs) : out.svgs[i].kwargs = {}

C9_Witness ==
    /\ OrthoDone
    /\ req.auto_brightness
    /\ Len(out.svgs) = 3
    /\ \E lo, hi \in out.svgs[1].kwargs :
           lo[1] = "vmin" /\ hi[1] = "vmax" /\ lo[2] < hi[2]
    /\ \A i \in 1..3 : out.svgs[i].kwargs = out.svgs[1].kwargs

(***************************************************************************)
(* interfaces/freesurfer.py and interfaces/mixins.py: the parcellation     *)
(* report.  A label volume is its flattened array of integer codes; the    *)
(* background image is the geometry resample_to_img follows: for each of   *)
(* its voxels the parcellation voxel nearest to it, 0 when it lies outside *)
(* the parcellation's field of view.  A colour is three fractions          *)
(* <<numerator, 255>>.                                                     *)
(***************************************************************************)
NVox == 3

RECURSIVE SortSet(_)
\* the elements of a set of integers in ascending order
SortSet(S) ==
    IF S = {} THEN <<>>
    ELSE <<SetMin(S)>> \o SortSet(S \ {SetMin(S)})

\* numpy.unique(arr): the sorted distinct values
np_unique(arr) == SortSet(Range(arr))

\* the return_inverse part: for each voxel the 0-based index of its value
\* in the sorted distinct values
np_unique_inverse(arr, unique_v) ==
    [v \in DOMAIN arr |->
        (CHOOSE i \in DOMAIN unique_v : unique_v[i] = arr[v]) - 1]

\* one line of the colour table file: hash says that the line holds a '#'
\* somewhere, comment that it starts with one, blank that it holds nothing
\* but white space
DataLine(roi, name, r, g, b) ==
    [hash |-> FALSE, comment |-> FALSE, blank |-> FALSE, roi |-> roi,
     name |-> name, r |-> r, g |-> g, b |-> b, a |-> 0]

\* a data line whose label name holds a '#'
HashNameLine(roi, name, r, g, b) ==
    [DataLine(roi, name, r, g, b) EXCEPT !.hash = TRUE]

CommentLine ==
    [hash |-> TRUE, comment |-> TRUE, blank |-> FALSE, roi |-> 0,
     name |-> "#No. Label Name", r |-> 0, g |-> 0, b |-> 0, a |-> 0]

BlankLine ==
    [hash |-> FALSE, comment |-> FALSE, blank |-> TRUE, roi |-> 0,
     name |-> "", r |-> 0, g |-> 0, b |-> 0, a |-> 0]

RECURSIVE ParseLines(_, _)
\* the loop of _parse_freesurfer_LUT over the first n lines
ParseLines(lines, n) ==
    IF n = 0 THEN <<>>
    ELSE LET color_mapping == ParseLines(lines, n - 1)
             line == lines[n]
         IN  IF line.hash \/ line.blank THEN color_mapping
             ELSE [k \in DOMAIN color_mapping \cup {line.roi} |->
                      IF k = line.roi
                      THEN <<<<line.r, 255>>, <<line.g, 255>>, <<line.b, 255>>>>
                      ELSE color_mapping[k]]

_parse_freesurfer_LUT(colortable) == ParseLines(colortable, Len(colortable))

\* nilearn.image.resample_to_img(parcellation, bg_nii, 'nearest')
resample_to_img(arr, bg_nii) ==
    [b \in DOMAIN bg_nii.src |->
        IF bg_nii.src[b] = 0 THEN 0 ELSE arr[bg_nii.src[b]]]

\* the first key of the comprehension that colormap does not hold, 0-based
\* position in unique_v; Len(unique_v) when every key is held
FirstMissing(colormap, unique_v) ==
    IF \A i \in DOMAIN unique_v : unique_v[i] \in DOMAIN colormap
    THEN Len(unique_v)
    ELSE SetMin({i \in DOMAIN unique_v : unique_v[i] \notin DOMAIN colormap}) - 1

\* mutant: the colours follow the codes in descending order
GetColors_descending(colormap, unique_v) ==
    [i \in DOMAIN unique_v |-> colormap[unique_v[Len(unique_v) + 1 - i]]]

\* [colormap[i] for i in unique_v], when every key is held
GetColors(colormap, unique_v) ==
    [i \in DOMAIN unique_v |-> colormap[unique_v[i]]]

\* mutant: a mask selects the voxels at or above the value
SegMask_at_least(d_parcellation, i) ==
    [v \in DOMAIN d_parcellation |-> d_parcellation[v] >= i]

\* d_parcellation == i
SegMask(d_parcellation, i) ==
    [v \in DOMAIN d_parcellation |-> d_parcellation[v] = i]

SegsOf(d_parcellation, values) ==
    [k \in DOMAIN values |-> SegMask(d_parcellation, values[k])]

\* the masks the generator yields, in order
_parcel2segs(parcellation) == SegsOf(parcellation, np_unique(parcellation))

\* the module each helper of niworkflows.viz.utils is taken from: as
\* imported, and after the assignments of lines 70 and 73
NiworkflowsHelpers ==
    [_3d_in_file |-> "niworkflows.viz.utils",
     _plot_anat_with_contours |-> "niworkflows.viz.utils"]

PatchedHelpers ==
    [_3d_in_file |-> "niviz.patches.niworkflows",
     _plot_anat_with_contours |-> "niviz.patches.niworkflows"]

\* ParcellationRC._generate_report: what plot_segs is handed, and the
\* helpers of niworkflows.viz.utils as the call leaves them
ParcellationRC_generate_report(_bg_nii, _parcellation, _colors) ==
    [image_nii |-> _bg_nii, seg_niis |-> _parcel2segs(_parcellation),
     colors |-> _colors, filled |-> TRUE, nwviz |-> PatchedHelpers]

NoReport ==
    [image_nii |-> [src |-> <<>>], seg_niis |-> <<>>, colors |-> <<>>,
     filled |-> FALSE, nwviz |-> NiworkflowsHelpers]

\* mutant: a code the table does not hold is drawn black
HookResult_default_colour(bg_nii, unique_v, u_id, colormap) ==
    LET _parcellation == resample_to_img(u_id, bg_nii)
        _colors == [i \in DOMAIN unique_v |->
                       IF unique_v[i] \in DOMAIN colormap
                       THEN colormap[unique_v[i]]
                       ELSE <<<<0, 255>>, <<0, 255>>, <<0, 255>>>>]
    IN  [rank_img |-> u_id, _parcellation |-> _parcellation,
         _colors |-> _colors, err |-> NoError,
         report |-> ParcellationRC_generate_report(bg_nii, _parcellation,
                                                   _colors)]

\* IFreesurferVolParcellationRPT._post_run_hook from line 120 on: the rank
\* volume, its resampling, the colours (or the KeyError of the first code
\* the table does not hold) and, through the parent hook, the report
HookResult(bg_nii, unique_v, u_id, colormap) ==
    LET _parcellation == resample_to_img(u_id, bg_nii)
        missing == FirstMissing(colormap, unique_v)
    IN  IF missing < Len(unique_v)
        THEN [rank_img |-> u_id, _parcellation |-> _parcellation,
              _colors |-> <<>>,
              err |-> [type |-> "KeyError", key |-> unique_v[missing + 1]],
              report |-> NoReport]
        ELSE [rank_img |-> u_id, _parcellation |-> _parcellation,
              _colors |-> GetColors(colormap, unique_v), err |-> NoError,
              report |-> ParcellationRC_generate_report(
                             bg_nii, _parcellation,
                             GetColors(colormap, unique_v))]

HookWithUnique(bg_nii, d_parcellation, unique_v, colortable) ==
    HookResult(bg_nii, unique_v, np_unique_inverse(d_parcellation, unique_v),
               _parse_freesurfer_LUT(colortable))

_post_run_hook(bg_nii, parcellation, colortable) ==
    HookWithUnique(bg_nii, parcellation, np_unique(parcellation), colortable)

(***************************************************************************)
(* Requests and actions of the parcellation specification.                 *)
(***************************************************************************)
Codes == {0, 3, 7, 9, 42}

LabelVolumes == [1..NVox -> Codes]

LutHeader == <<CommentLine, BlankLine>>

LutBody ==
    <<DataLine(0, "Unknown", 0, 0, 0),
      DataLine(3, "Left-Cerebral-Cortex", 205, 62, 78),
      DataLine(7, "Left-Cerebellum-White-Matter", 220, 248, 164),
      DataLine(9, "Left-Thalamus", 0, 118, 14)>>

ColorTables ==
    {LutHeader \o LutBody,
     LutHeader \o LutBody \o <<DataLine(42, "Right-Cerebral-Cortex", 205, 62, 78)>>,
     SubSeq(LutBody, 2, 4) \o <<BlankLine>>}

\* background grids: the parcellation's own, one shifted by a voxel, and a
\* coarser one holding every other voxel
Backgrounds ==
    {[src |-> [b \in 1..NVox |-> b]],
     [src |-> [b \in 1..NVox |-> IF b < NVox THEN b + 1 ELSE 0]],
     [src |-> [b \in 1..((NVox + 1) \div 2) |-> 2 * b - 1]]}

ParcRequests ==
    [op : {"IFreesurferVolParcellationRPT"}, parcellation : LabelVolumes,
     colortable : ColorTables, bg_nii : Backgrounds]

InitParc ==
    /\ req \in ParcRequests
    /\ out = NoOut
    /\ pc = "ready"

RunParcellationRPT ==
    /\ pc = "ready"
    /\ req.op = "IFreesurferVolParcellationRPT"
    /\ out' = _post_run_hook(req.bg_nii, req.parcellation, req.colortable)
    /\ pc' = IF out'.err = NoError THEN "done" ELSE "failed"
    /\ UNCHANGED req

NextParc == RunParcellationRPT

SpecParc == InitParc /\ [][NextParc]_vars

(***************************************************************************)
(* Claims about the parcellation report (checked under SpecParc).          *)
(***************************************************************************)
\* the codes present in the label volume of the request
PresentCodes == Range(req.parcellation)

\* the number of present codes smaller than c: the rank of c
RankOfCode(c) == Cardinality({x \in PresentCodes : x < c})

\* the colour lookup of the request
Lookup == _parse_freesurfer_LUT(req.colortable)

\* C4: for sorted distinct codes c0 < c1 < ... < ck every voxel with original
\* code ci is rewritten to rank i (0-based) and colors[i] = lookup[ci]; codes
\* {7, 3, 9} give ranks 3->0, 7->1, 9->2 and colors = [lookup[3], lookup[7],
\* lookup[9]].
C4_RankRemapAndColours ==
    pc = "done" =>
        /\ \A v \in DOMAIN req.parcellation :
               out.rank_img[v] = RankOfCode(req.parcellation[v])
        /\ Len(out._colors) = Cardinality(PresentCodes)
        /\ \A c \in PresentCodes : out._colors[RankOfCode(c) + 1] = Lookup[c]
        /\ PresentCodes = {3, 7, 9} =>
               out._colors = <<Lookup[3], Lookup[7], Lookup[9]>>

C4_Witness ==
    /\ pc = "done"
    /\ SubSeq(req.parcellation, 1, 3) = <<7, 3, 9>>
    /\ PresentCodes = {3, 7, 9}
    /\ SubSeq(out.rank_img, 1, 3) = <<1, 0, 2>>
    /\ out._colors = <<<<<<205, 255>>, <<62, 255>>, <<78, 255>>>>,
                       <<<<220, 255>>, <<248, 255>>, <<164, 255>>>>,
                       <<<<0, 255>>, <<118, 255>>, <<14, 255>>>>>>

\* C5: if any code present in the label volume is absent from the colour
\* lookup table, building the colour table fails with a missing-mapping
\* error that names the offending code; no default colour is substituted and
\* no report is generated for that request.
C5_MissingCodeFails ==
    (pc # "ready" /\ PresentCodes \ DOMAIN Lookup # {}) =>
        /\ pc = "failed"
        /\ out.err.type = "KeyError"
        /\ out.err.key \in PresentCodes \ DOMAIN Lookup
        /\ out._colors = <<>>
        /\ out.report = NoReport

C5_Witness ==
    /\ pc = "failed"
    /\ PresentCodes \ DOMAIN Lookup = {42}
    /\ out.err = [type |-> "KeyError", key |-> 42]
    /\ out.report = NoReport

\* the voxels a mask selects
Selected(mask) == {v \in DOMAIN mask : mask[v]}

\* the support of the volume the masks were cut from
Support(arr) == {v \in DOMAIN arr : arr[v] # 0}

\* C6 as stated: the masks yielded by _parcel2segs are pairwise disjoint and
\* their union reconstructs exactly the support of the rank-remapped volume.
C6_MasksReconstructSupport ==
    pc = "done" =>
        LET segs == out.report.seg_niis
        IN  /\ \A j, k \in DOMAIN segs :
                   j # k => Selected(segs[j]) \cap Selected(segs[k]) = {}
            /\ UNION {Selected(segs[k]) : k \in DOMAIN segs} =
                   Support(out._parcellation)

\* C6 amended: there is one mask per distinct value, each selecting exactly
\* the voxels equal to that value; the masks are pairwise disjoint, and
\* their union is the whole voxel grid of the volume: the masks of the
\* non-zero values reconstruct its support and the mask of value 0, when 0
\* occurs, covers the rest.
C6_MasksPartitionGrid ==
    pc = "done" =>
        LET segs == out.report.seg_niis
            vol == out._parcellation
            values == Range(vol)
        IN  /\ Len(segs) = Cardinality(values)
            /\ \A k \in DOMAIN segs :
                   Selected(segs[k]) =
                       {v \in DOMAIN vol : vol[v] = SortSet(values)[k]}
            /\ \A j, k \in DOMAIN segs :
                   j # k => Selected(segs[j]) \cap Selected(segs[k]) = {}
            /\ UNION {Selected(segs[k]) : k \in DOMAIN segs} = DOMAIN vol
            /\ UNION {Selected(segs[k]) :
                          k \in {j \in DOMAIN segs : SortSet(values)[j] # 0}} =
                   Support(vol)

C6_Witness ==
    /\ pc = "done"
    /\ Len(out.report.seg_niis) = 3
    /\ Support(out._parcellation) # {}
    /\ Support(out._parcellation) # DOMAIN out._parcellation
    /\ \A k \in 1..3 : Selected(out.report.seg_niis[k]) # {}

(***************************************************************************)
(* interfaces/surface.py: ISurfVolRPT.  A mesh is its vertices (mm) and    *)
(* its faces (triples of 0-based vertex indices).  The contour set of a    *)
(* plane is told by the faces the plane crosses; a plane that crosses      *)
(* none has no section (None in the code).                                 *)
(***************************************************************************)
DefaultSurfCuts == 7

Mesh(verts, trigs) == [verts |-> verts, trigs |-> trigs]

\* niviz.surface.gifti_get_full_brain_mesh(l_surf, r_surf): the hemispheres
\* merged, the right faces re-indexed by the number of left vertices
gifti_get_full_brain_mesh(l_surf, r_surf) ==
    [verts |-> l_surf.verts \o r_surf.verts,
     trigs |-> l_surf.trigs \o
               [f \in DOMAIN r_surf.trigs |->
                   [c \in 1..3 |-> r_surf.trigs[f][c] + Len(l_surf.verts)]],
     offset |-> Len(l_surf.verts)]

\* the heights (1e-3 mm) of the three corners of face f
FaceHeights(mesh, f) == {1000 * mesh.verts[mesh.trigs[f][c] + 1][3] : c \in 1..3}

NoSection == [none |-> TRUE, height |-> 0, faces |-> {}]

\* one plane of trimesh's section_multiplane (normal z, origin 0)
SectionAt(mesh, h) ==
    LET crossed == {f \in DOMAIN mesh.trigs :
                       /\ SetMin(FaceHeights(mesh, f)) <= h
                       /\ h <= SetMax(FaceHeights(mesh, f))}
    IN  IF crossed = {} THEN NoSection
        ELSE [none |-> FALSE, height |-> h, faces |-> crossed]

section_multiplane(mesh, heights) ==
    [i \in DOMAIN heights |-> SectionAt(mesh, heights[i])]

\* zh.axes of the display plot_anat returns: the panels keyed by their cut
\* coordinate (a later panel with the same coordinate takes the key)
DisplayAxes(cut_coords) ==
    [z \in Range(cut_coords) |->
        SetMax({i \in DOMAIN cut_coords : cut_coords[i] = z})]

\* the loop over zip(cuts['z'], sections): what ends up drawn on panel p
DrawnOn(cut_coords, axes, sections, p) ==
    {[index |-> i, section |-> sections[i]] :
        i \in {j \in DOMAIN cut_coords :
                  /\ axes[cut_coords[j]] = p
                  /\ ~sections[j].none}}

\* the panels of zh after the loop
SurfVolPanels(vol_img, cut_coords, sections) ==
    [p \in DOMAIN cut_coords |->
        [data |-> vol_img, display_mode |-> "z", cut_coord |-> cut_coords[p],
         contours |-> DrawnOn(cut_coords, DisplayAxes(cut_coords), sections, p)]]

NoOverlay == [img |-> None, cmap |-> ""]

\* fg_img = nib.load(self._fg_nii).slicer[:, :, :, 0], resampled onto the
\* grid of vol_img (the same grid here) and added with the fading colormap
FgOverlay(fg_nii) ==
    IF fg_nii = None THEN NoOverlay
    ELSE [img |-> [ndim |-> 3, frames |-> <<fg_nii.frames[1]>>],
          cmap |-> "viridis_r"]

SurfVolWithCuts(vol_img, fg_nii, mesh, cut_coords) ==
    IF fg_nii # None /\ fg_nii.ndim < 4
    THEN [panels |-> <<>>, overlay |-> NoOverlay, cuts |-> cut_coords,
          err |-> [type |-> "IndexError", key |-> 0]]
    ELSE [panels |-> SurfVolPanels(vol_img, cut_coords,
                                   section_multiplane(mesh, cut_coords)),
          overlay |-> FgOverlay(fg_nii), cuts |-> cut_coords,
          err |-> NoError]

\* a negative count fails in np.zeros((4, cuts)) of cuts_from_bbox
SurfVolOf3d(vol_img, fg_nii, mesh, _ncuts) ==
    IF _ncuts < 0
    THEN [panels |-> <<>>, overlay |-> NoOverlay, cuts |-> <<>>,
          err |-> [type |-> "ValueError", key |-> _ncuts]]
    ELSE SurfVolWithCuts(vol_img, fg_nii, mesh,
                         cuts_from_bbox(threshold_img(vol_img, Threshold),
                                        _ncuts)["z"])

\* ISurfVolRPT._post_run_hook and _generate_report; n_cuts = 0 stands for a
\* count left unset (or given as 0)
ISurfVolRPT_generate_report(bg_nii, fg_nii, surf_l, surf_r, n_cuts) ==
    SurfVolOf3d(IF bg_nii.ndim = 4
                THEN [ndim |-> 3, frames |-> <<bg_nii.frames[1]>>]
                ELSE bg_nii,
                fg_nii,
                gifti_get_full_brain_mesh(surf_l, surf_r),
                IF n_cuts = 0 THEN DefaultSurfCuts ELSE n_cuts)

(***************************************************************************)
(* Requests and actions of the surface/volume specification.               *)
(***************************************************************************)
\* a triangle standing on the plane z = lo and reaching up to z = hi
Spike(x, lo, hi) ==
    Mesh(<<<<x, 0, lo>>, <<x + 1, 0, lo>>, <<x, 1, hi>>>>, <<<<0, 1, 2>>>>)

Hemispheres ==
    {<<Spike(0, 0, Dim - 1), Spike(2, 0, 1)>>,
     <<Spike(0, 1, 1), Spike(2, Dim, Dim + 1)>>,
     <<Spike(0, 0, 0), Spike(2, 0, 0)>>}

SurfVolRequests ==
    [op : {"ISurfVolRPT"}, bg_nii : Volumes3 \cup Volumes4,
     fg_nii : {None, Img3(HaloArr), Img4(HaloArr, SkewArr)},
     surf : Hemispheres, n_cuts : 0..MaxViewCuts]

InitSurfVol ==
    /\ req \in SurfVolRequests
    /\ out = NoOut
    /\ pc = "ready"

RunISurfVolRPT ==
    /\ pc = "ready"
    /\ req.op = "ISurfVolRPT"
    /\ out' = ISurfVolRPT_generate_report(req.bg_nii, req.fg_nii, req.surf[1],
                                          req.surf[2], req.n_cuts)
    /\ pc' = IF out'.err = NoError THEN "done" ELSE "failed"
    /\ UNCHANGED req

NextSurfVol == RunISurfVolRPT

SpecSurfVol == InitSurfVol /\ [][NextSurfVol]_vars

(***************************************************************************)
(* Claims about ISurfVolRPT (checked under SpecSurfVol).                   *)
(***************************************************************************)
\* the merged mesh of the request
RequestMesh == gifti_get_full_brain_mesh(req.surf[1], req.surf[2])

\* C10: for every index i of the cut-coordinate sequence the contour set
\* computed for coordinate i is drawn on the slice panel rendered for
\* coordinate i (correspondence by position), a coordinate whose plane
\* misses the mesh draws nothing and raises no error, and every coordinate
\* still has its slice panel.
C10_ContoursDrawnByPosition ==
    pc = "done" =>
        /\ Len(out.panels) = Len(out.cuts)
        /\ \A i \in DOMAIN out.cuts :
               LET s == SectionAt(RequestMesh, out.cuts[i])
               IN  /\ out.panels[i].cut_coord = out.cuts[i]
                   /\ out.panels[i].contours =
                         IF s.none THEN {}
                         ELSE {[index |-> i, section |-> s]}

(***************************************************************************)
(* interfaces/surface.py: ISurfMapRPT.  A numpy array is a record of its   *)
(* number of dimensions and its rows: a 2-D array holds one row per map, a *)
(* 1-D array one row, a scalar one row of one value.  NaN is a value no    *)
(* dataset holds.                                                          *)
(***************************************************************************)
MaxViews == 2
MaxMaps == 2

NaN == 0 - 1

isnan(x) == x = NaN

Array(ndim, rows) == [ndim |-> ndim, rows |-> rows]

NoArray == Array(0 - 1, <<>>)

\* niviz.surface.gifti_get_mesh(surf): the vertices and faces of one
\* hemisphere
gifti_get_mesh(surf) == Mesh(surf.verts, surf.trigs)

\* one map of the dataset carried onto the vertices of a hemisphere: the
\* value of the vertex's grayordinate, NaN for a vertex without one
MapRow(values, index) ==
    [v \in DOMAIN index |-> IF index[v] = 0 THEN NaN ELSE values[index[v]]]

\* niviz.surface.map_cifti_to_gifti(surf, cifti_map): the mesh and the
\* dataset per vertex, 1-D for a single-map dataset and maps x vertices
\* for a batch
map_cifti_to_gifti(surf, cifti_map) ==
    [v |-> surf.verts, t |-> surf.trigs,
     m |-> Array(cifti_map.ndim,
                 [k \in DOMAIN cifti_map.maps |->
                     MapRow(cifti_map.maps[k], cifti_map.index[surf.hemi])])]

\* lm[None, :]
Promote(m) == IF m.ndim = 1 THEN Array(2, m.rows) ELSE m

\* lm[0, :]
FirstMap(m) == Array(1, <<m.rows[1]>>)

\* lines 148..156: the array kept for one hemisphere
HemiMap(m, visualize_all_maps) ==
    IF visualize_all_maps THEN Promote(m) ELSE FirstMap(Promote(m))

\* m[map_ind]: a row of a 2-D array, one value of a 1-D array
Subscript(m, map_ind) ==
    IF m.ndim = 2 THEN Array(1, <<m.rows[map_ind + 1]>>)
    ELSE Array(0, <<<<m.rows[1][map_ind + 1]>>>>)

\* m[np.isnan(m)] = 0 on the row map_ind of a 2-D array, which m is a view of
ZeroNaNs(m, map_ind) ==
    Array(m.ndim,
          [k \in DOMAIN m.rows |->
              IF k = map_ind + 1
              THEN [v \in DOMAIN m.rows[k] |->
                       IF isnan(m.rows[k][v]) THEN 0 ELSE m.rows[k][v]]
              ELSE m.rows[k]])

\* one pass of the loop of lines 183..211 over a state of the arrays of
\* both hemispheres, the panels drawn so far and the error raised, if any
RenderPanel(st, _views, _zero_nan, num_views, i) ==
    LET view_ind == i % num_views
        map_ind == i \div num_views
        hemi == _views[view_ind + 1].hemi
        display_map == st.map_hemi[hemi]
    IN  IF display_map.m = NoArray
        THEN [st EXCEPT !.err = [type |-> "TypeError", key |-> i]]
        ELSE IF _zero_nan /\ Subscript(display_map.m, map_ind).ndim = 0
        THEN [st EXCEPT !.err = [type |-> "TypeError", key |-> i]]
        ELSE LET shared == IF _zero_nan THEN ZeroNaNs(display_map.m, map_ind)
                           ELSE display_map.m
             IN  [st EXCEPT
                     !.map_hemi[hemi].m = shared,
                     !.panels = Append(st.panels,
                         [view |-> _views[view_ind + 1].view, hemi |-> hemi,
                          view_ind |-> view_ind, map_ind |-> map_ind,
                          mesh |-> Mesh(display_map.v, display_map.t),
                          surf_map |-> Subscript(shared, map_ind)])]

RECURSIVE RenderPanels(_, _, _, _, _)
\* the loop of lines 183..211 over the first n axes of the figure
RenderPanels(st, _views, _zero_nan, num_views, n) ==
    IF n = 0 THEN st
    ELSE LET before == RenderPanels(st, _views, _zero_nan, num_views, n - 1)
         IN  IF before.err # NoError THEN before
             ELSE RenderPanel(before, _views, _zero_nan, num_views, n - 1)

\* plt.subplots(num_maps, num_views) and the loop over axs.flat: a 1 x 1
\* grid is a single Axes, which has no attribute flat
SurfMapFigure(map_hemi, _views, _zero_nan, num_maps, num_views) ==
    LET st == [map_hemi |-> map_hemi, panels |-> <<>>, err |-> NoError,
               num_maps |-> num_maps, num_views |-> num_views]
    IN  IF num_maps * num_views = 1
        THEN [st EXCEPT !.err = [type |-> "AttributeError", key |-> 0]]
        ELSE RenderPanels(st, _views, _zero_nan, num_views,
                          num_maps * num_views)

\* lines 143..164: the arrays of both hemispheres and the number of maps
SurfMapHemispheres(l_surf, r_surf, _cifti_map, _visualize_all_maps) ==
    IF _cifti_map # None
    THEN LET l == map_cifti_to_gifti(l_surf, _cifti_map)
             r == map_cifti_to_gifti(r_surf, _cifti_map)
         IN  [left |-> [l EXCEPT !.m = HemiMap(l.m, _visualize_all_maps)],
              right |-> [r EXCEPT !.m = HemiMap(r.m, _visualize_all_maps)]]
    ELSE [left |-> [v |-> gifti_get_mesh(l_surf).verts,
                    t |-> gifti_get_mesh(l_surf).trigs, m |-> NoArray],
          right |-> [v |-> gifti_get_mesh(r_surf).verts,
                     t |-> gifti_get_mesh(r_surf).trigs, m |-> NoArray]]

\* num_maps of lines 140 and 156
NumMaps(map_hemi, _cifti_map, _visualize_all_maps) ==
    IF _cifti_map # None /\ _visualize_all_maps
    THEN Len(map_hemi.left.m.rows) ELSE 1

SurfMapOfHemispheres(map_hemi, _views, _cifti_map, _visualize_all_maps, _zero_nan) ==
    SurfMapFigure(map_hemi, _views, _zero_nan,
                  NumMaps(map_hemi, _cifti_map, _visualize_all_maps),
                  Len(_views))

\* ISurfMapRPT._generate_report without a background map
ISurfMapRPT_generate_report(l_surf, r_surf, _cifti_map, _views, _visualize_all_maps, _zero_nan) ==
    SurfMapOfHemispheres(
        SurfMapHemispheres(l_surf, r_surf, _cifti_map, _visualize_all_maps),
        _views, _cifti_map, _visualize_all_maps, _zero_nan)

(***************************************************************************)
(* Requests and actions of the surface map specification.                  *)
(***************************************************************************)
\* a left hemisphere of three vertices and a right one of four
LeftSurf ==
    [hemi |-> "left",
     verts |-> <<<<0, 0, 0>>, <<1, 0, 0>>, <<0, 1, 1>>>>,
     trigs |-> <<<<0, 1, 2>>>>]

RightSurf ==
    [hemi |-> "right",
     verts |-> <<<<2, 0, 0>>, <<3, 0, 0>>, <<2, 1, 1>>, <<3, 1, 1>>>>,
     trigs |-> <<<<0, 1, 2>>, <<1, 3, 2>>>>]

\* vertex -> grayordinate (0: the vertex has none)
DenseIndex == [left |-> <<1, 2, 3>>, right |-> <<4, 5, 6, 7>>]

SparseIndex == [left |-> <<1, 0, 2>>, right |-> <<0, 3, 0, 4>>]

\* map k holds the value 10 k + g at grayordinate g
MapValues ==
    [k \in 1..MaxMaps |->
        [g \in 1..(Len(LeftSurf.verts) + Len(RightSurf.verts)) |-> 10 * k + g]]

\* dscalar files: a single map stored 1-D and batches of 1..MaxMaps maps
CiftiMaps ==
    {[ndim |-> 1, maps |-> SubSeq(MapValues, 1, 1), index |-> ix] :
        ix \in {DenseIndex, SparseIndex}}
    \cup {[ndim |-> 2, maps |-> SubSeq(MapValues, 1, n), index |-> ix] :
            n \in 1..MaxMaps, ix \in {DenseIndex, SparseIndex}}

ViewPool ==
    {[view |-> "lateral", hemi |-> "left"], [view |-> "medial", hemi |-> "left"],
     [view |-> "lateral", hemi |-> "right"]}

ViewLists == UNION {[1..n -> ViewPool] : n \in 1..MaxViews}

SurfMapRequests ==
    [op : {"ISurfMapRPT"}, cifti_map : {None} \cup CiftiMaps,
     views : ViewLists, visualize_all_maps : BOOLEAN, zero_nan : BOOLEAN]

InitSurfMap ==
    /\ req \in SurfMapRequests
    /\ out = NoOut
    /\ pc = "ready"

RunISurfMapRPT ==
    /\ pc = "ready"
    /\ req.op = "ISurfMapRPT"
    /\ out' = ISurfMapRPT_generate_report(LeftSurf, RightSurf, req.cifti_map,
                                          req.views, req.visualize_all_maps,
                                          req.zero_nan)
    /\ pc' = IF out'.err = NoError THEN "done" ELSE "failed"
    /\ UNCHANGED req

NextSurfMap == RunISurfMapRPT

SpecSurfMap == InitSurfMap /\ [][NextSurfMap]_vars

(***************************************************************************)
(* Claims about ISurfMapRPT (checked under SpecSurfMap).                   *)
(***************************************************************************)
\* the number of vertices of the mesh of a hemisphere
NumVertices(hemi) ==
    IF hemi = "left" THEN Len(LeftSurf.verts) ELSE Len(RightSurf.verts)

\* C11: whenever a scalar dataset is supplied, the scalar map handed to the
\* renderer for every panel is a one-dimensional array with exactly one
\* value per vertex of that hemisphere's mesh, in single-map mode and in
\* all-maps mode.
C11_OneValuePerVertex ==
    (pc # "ready" /\ req.cifti_map # None) =>
        \A i \in DOMAIN out.panels :
            /\ out.panels[i].surf_map.ndim = 1
            /\ Len(out.panels[i].surf_map.rows[1]) =
                  NumVertices(out.panels[i].hemi)

\* the values the claim prescribes for the vertices of a hemisphere in map k
PrescribedRow(hemi, k) ==
    [v \in 1..NumVertices(hemi) |->
        IF req.cifti_map.index[hemi][v] = 0
        THEN (IF req.zero_nan THEN 0 ELSE NaN)
        ELSE req.cifti_map.maps[k][req.cifti_map.index[hemi][v]]]

\* C12: for every panel rendered, a vertex with no correspondence in the
\* scalar dataset is passed to the renderer as NaN when zero_nan is False
\* and as exactly 0 when zero_nan is True, and every mapped vertex is passed
\* with its dataset value in both settings.
C12_UnmappedVerticesNaNOrZero ==
    (pc # "ready" /\ req.cifti_map # None) =>
        \A i \in DOMAIN out.panels :
            out.panels[i].surf_map.rows[1] =
                PrescribedRow(out.panels[i].hemi, out.panels[i].map_ind + 1)

\* the same statement for the requests that show all maps
C12_AllMapsMode ==
    req.visualize_all_maps => C12_UnmappedVerticesNaNOrZero

\* the number of maps the request asks to show
RequestedMaps ==
    IF req.cifti_map # None /\ req.visualize_all_maps
    THEN Len(req.cifti_map.maps) ELSE 1

\* C20: exactly num_maps x num_views panels are laid out, the panel at flat
\* index i showing view (i mod num_views) of map (i div num_views), for
\* every num_views >= 1 and num_maps >= 1 (a 1 x 1 grid included) and with
\* or without a scalar dataset.
C20_PanelGrid ==
    pc # "ready" =>
        /\ pc = "done"
        /\ Len(out.panels) = RequestedMaps * Len(req.views)
        /\ \A i \in 0..(Len(out.panels) - 1) :
               /\ out.panels[i + 1].view_ind = i % Len(req.views)
               /\ out.panels[i + 1].map_ind = i \div Len(req.views)
               /\ out.panels[i + 1].view =
                     req.views[(i % Len(req.views)) + 1].view
               /\ out.panels[i + 1].hemi =
                     req.views[(i % Len(req.views)) + 1].hemi

\* the same statement for the requests that carry a dataset and ask for
\* more than one panel
C20_GridWithDataset ==
    (req.cifti_map # None /\ RequestedMaps * Len(req.views) > 1
        /\ ~(req.zero_nan /\ ~req.visualize_all_maps))
        => C20_PanelGrid

\* a supplied volume as the claim has it used: index 0 of the 4th axis of a
\* 4-D volume, a 3-D volume unchanged
ReducedTo3d(nii) ==
    IF nii.ndim = 4 THEN [ndim |-> 3, frames |-> <<nii.frames[1]>>] ELSE nii

\* C13: in ISurfVolRPT a supplied background or foreground volume may be
\* 3-D or 4-D: a 4-D volume is reduced to index 0 of its 4th axis before it
\* is thresholded, cut, sliced or resampled, and a 3-D volume is accepted
\* and used unchanged.
C13_Accepts3dAnd4d ==
    pc # "ready" =>
        /\ pc = "done"
        /\ \A p \in DOMAIN out.panels :
               out.panels[p].data = ReducedTo3d(req.bg_nii)
        /\ req.fg_nii # None => out.overlay.img = ReducedTo3d(req.fg_nii)

\* the same statement for the requests whose foreground, if any, is 4-D
C13_Foreground4d ==
    (req.fg_nii = None \/ req.fg_nii.ndim = 4) => C13_Accepts3dAnd4d

(***************************************************************************)
(* Requests with a count that is not positive: plot_montage and            *)
(* ISurfVolRPT (checked under SpecCounts).                                 *)
(***************************************************************************)
NonPositive == {0 - 1, 0}

Counts == NonPositive \cup 1..MaxViewCuts

MontageCountRequests ==
    {r \in [op : {"plot_montage"}, data : Volumes3, orientation : AxisNames,
            bbox_nii : {None} \cup Masks, n_cuts : Counts, n_cols : Counts,
            auto_brightness : BOOLEAN, figure_title : {"figure"}] :
        r.n_cuts \in NonPositive \/ r.n_cols \in NonPositive}

SurfVolCountRequests ==
    [op : {"ISurfVolRPT"}, bg_nii : Volumes3 \cup Volumes4,
     fg_nii : {None, Img4(HaloArr, SkewArr)}, surf : Hemispheres,
     n_cuts : NonPositive]

InitCounts ==
    /\ req \in MontageCountRequests \cup SurfVolCountRequests
    /\ out = NoOut
    /\ pc = "ready"

NextCounts == CallMontage \/ RunISurfVolRPT

SpecCounts == InitCounts /\ [][NextCounts]_vars

\* C14: a request with a cut count <= 0 or a column count <= 0 is rejected
\* with an error before any panel is rendered: plot_montage with
\* n_cols <= 0 or n_cuts <= 0 and ISurfVolRPT with n_cuts <= 0 never return
\* a (possibly empty) panel list and never substitute another count.
C14_NonPositiveCountsRejected ==
    pc # "ready" => pc = "failed"

\* the requests the code does reject
C14_RejectedRequests ==
    pc = "failed" =>
        \/ req.n_cuts < 0
        \/ req.op = "plot_montage" /\ req.n_cols = 0

(***************************************************************************)
(* _parse_freesurfer_LUT on its own (checked under SpecLut).               *)
(***************************************************************************)
MaxLines == 3

LinePool ==
    {CommentLine, BlankLine,
     DataLine(3, "Left-Cerebral-Cortex", 205, 62, 78),
     DataLine(7, "Left-Cerebellum-White-Matter", 220, 248, 164),
     DataLine(3, "ctx-lh", 255, 0, 14),
     HashNameLine(9, "Left-Thalamus#2", 0, 118, 14)}

LutRequests ==
    [op : {"_parse_freesurfer_LUT"},
     colortable : UNION {[1..n -> LinePool] : n \in 0..MaxLines}]

InitLut ==
    /\ req \in LutRequests
    /\ out = NoOut
    /\ pc = "ready"

ParseLUT ==
    /\ pc = "ready"
    /\ req.op = "_parse_freesurfer_LUT"
    /\ out' = [color_mapping |-> _parse_freesurfer_LUT(req.colortable)]
    /\ pc' = "done"
    /\ UNCHANGED req

NextLut == ParseLUT

SpecLut == InitLut /\ [][NextLut]_vars

\* the positions of the lines that are neither blank nor a comment
DataLines ==
    {n \in DOMAIN req.colortable :
        ~req.colortable[n].blank /\ ~req.colortable[n].comment}

\* the last data line that names the code
LastLineOf(code) ==
    req.colortable[SetMax({n \in DataLines : req.colortable[n].roi = code})]

\* C15: _parse_freesurfer_LUT skips exactly the blank lines and the lines
\* starting with '#'; every other line (code, name, r, g, b, alpha)
\* contributes an entry code -> [r/255, g/255, b/255], so each component
\* lies in [0, 1] and no data line is dropped.
C15_OnlyBlankAndCommentSkipped ==
    pc = "done" =>
        /\ DOMAIN out.color_mapping = {req.colortable[n].roi : n \in DataLines}
        /\ \A code \in DOMAIN out.color_mapping :
               /\ out.color_mapping[code] =
                     <<<<LastLineOf(code).r, 255>>, <<LastLineOf(code).g, 255>>,
                       <<LastLineOf(code).b, 255>>>>
               /\ \A c \in 1..3 :
                      /\ 0 <= out.color_mapping[code][c][1]
                      /\ out.color_mapping[code][c][1] <=
                            out.color_mapping[code][c][2]

\* the same statement for the tables none of whose data lines holds a '#'
C15_TablesWithoutHashInData ==
    (\A n \in DataLines : ~req.colortable[n].hash)
        => C15_OnlyBlankAndCommentSkipped

(***************************************************************************)
(* Claims about what a composition leaves behind (C17, checked under       *)
(* SpecParc) and about the masks handed to the overlay renderer (C19).     *)
(***************************************************************************)
\* C17: no composition operation changes state that a later call can
\* observe: after ParcellationRC._generate_report the helper functions of
\* the external rendering module are the same as before the call.
C17_HelpersUnchanged ==
    pc = "done" => out.report.nwviz = NiworkflowsHelpers

\* the voxels of the background grid whose nearest parcellation voxel holds
\* the code
VoxelsOfCode(c) ==
    {b \in DOMAIN req.bg_nii.src :
        req.bg_nii.src[b] # 0 /\ req.parcellation[req.bg_nii.src[b]] = c}

\* C19: the sequence of binary masks passed to the overlay renderer has the
\* same length as the colour list, and the k-th mask selects exactly the
\* voxels whose original code is the k-th smallest code, also when
\* resampling the rank volume onto the background grid removes every voxel
\* of some code or introduces fill-value voxels.
C19_MasksAlignedWithColours ==
    pc = "done" =>
        /\ Len(out.report.seg_niis) = Len(out.report.colors)
        /\ \A k \in DOMAIN out.report.seg_niis :
               Selected(out.report.seg_niis[k]) =
                   VoxelsOfCode(SortSet(PresentCodes)[k])

\* the same statement for the requests whose background grid is the
\* parcellation's own
C19_SameGrid ==
    req.bg_nii.src = [b \in 1..NVox |-> b] => C19_MasksAlignedWithColours

\* C17, second half (checked under SpecSurfMap): rendering the panels of
\* ISurfMapRPT does not alter the scalar-map arrays read from the dataset.
C17_ScalarMapsUnaltered ==
    (pc = "done" /\ req.cifti_map # None) =>
        out.map_hemi = SurfMapHemispheres(LeftSurf, RightSurf, req.cifti_map,
                                          req.visualize_all_maps)

(***************************************************************************)
(* make_svgs.py: svg_util.  An argument specification is known by its      *)
(* position in the list fetch_data returns; node says whether              *)
(* get_interface yields an interface for it, raises whether running that   *)
(* interface raises, exists whether its output file is there before the    *)
(* first invocation.  nthreads = 0 stands for the flag left out (None).    *)
(* With at most four jobs per worker pool.map hands every job to the pool  *)
(* as a task of its own.                                                   *)
(***************************************************************************)
MaxJobs == 2
MaxThreads == 2
MaxInvocations == 2

ArgSpecs == [node : BOOLEAN, raises : BOOLEAN, exists : BOOLEAN]

\* lines 69..73: the specifications kept, by position
Unrendered(arg_specs, files, rewrite) ==
    SelectSeq([j \in DOMAIN arg_specs |-> j],
              LAMBDA j : rewrite \/ files[j] = "none")

\* lines 75..79: the interfaces of the kept specifications
Interfaces(arg_specs, kept) ==
    SelectSeq(kept, LAMBDA j : arg_specs[j].node)

\* _mksvg(interface): interface.run() writes the output file unless it
\* raises; ran_existing records the jobs run while their output was there
_mksvg(o, arg_specs, j) ==
    [o EXCEPT !.runs[j] = @ + 1,
              !.ran_existing = IF o.files[j] # "none" THEN @ \cup {j} ELSE @,
              !.files[j] = IF arg_specs[j].raises THEN @ ELSE "new",
              !.raised = @ \/ arg_specs[j].raises]

\* the state svg_util starts from
SvgStart(arg_specs, files, invocation, first_ok) ==
    [files |-> files, before |-> files,
     runs |-> [j \in DOMAIN arg_specs |-> 0], interfaces |-> <<>>,
     next |-> 1, pending |-> {}, raised |-> FALSE, ran_existing |-> {},
     invocation |-> invocation, first_ok |-> first_ok]

SvgRequests ==
    [op : {"svg_util"},
     arg_specs : UNION {[1..n -> ArgSpecs] : n \in 0..MaxJobs},
     rewrite : BOOLEAN, nthreads : 0..MaxThreads]

InitSvg ==
    /\ req \in SvgRequests
    /\ out = SvgStart(req.arg_specs,
                      [j \in DOMAIN req.arg_specs |->
                          IF req.arg_specs[j].exists THEN "old" ELSE "none"],
                      1, FALSE)
    /\ pc = "ready"

\* where svg_util goes once the list comprehension of line 82 is through
\* or skipped: the pool of lines 84..85, which has nothing to do for an
\* empty list
EnterPool(interfaces) == IF interfaces = <<>> THEN "done" ELSE "pool"

\* lines 66..81
SelectInterfaces ==
    /\ pc = "ready"
    /\ req.op = "svg_util"
    /\ LET interfaces == Interfaces(req.arg_specs,
                             Unrendered(req.arg_specs, out.files, req.rewrite))
       IN  /\ out' = [out EXCEPT !.interfaces = interfaces,
                                 !.pending = Range(interfaces)]
           /\ pc' = IF req.nthreads = 1 /\ interfaces # <<>>
                    THEN "sequential" ELSE EnterPool(interfaces)
    /\ UNCHANGED req

\* line 82: one element of [_mksvg(i) for i in interfaces]; an exception
\* ends svg_util
RunSequential ==
    /\ pc = "sequential"
    /\ out' = [_mksvg(out, req.arg_specs, out.interfaces[out.next])
                  EXCEPT !.next = @ + 1]
    /\ pc' = IF out'.raised THEN "failed"
             ELSE IF out'.next > Len(out.interfaces)
             THEN EnterPool(out.interfaces) ELSE "sequential"
    /\ UNCHANGED req

\* lines 84..85: a worker of the pool takes one of the tasks of
\* pool.map(_mksvg, interfaces); map raises once every task is through if
\* one of them raised
RunInPool ==
    /\ pc = "pool"
    /\ \E j \in out.pending :
           out' = [_mksvg(out, req.arg_specs, j) EXCEPT !.pending = @ \ {j}]
    /\ pc' = IF out'.pending # {} THEN "pool"
             ELSE IF out'.raised THEN "failed" ELSE "done"
    /\ UNCHANGED req

\* svg_util is invoked again with the same arguments on the files the
\* invocation before left
InvokeAgain ==
    /\ pc \in {"done", "failed"}
    /\ out.invocation < MaxInvocations
    /\ out' = SvgStart(req.arg_specs, out.files, out.invocation + 1,
                       pc = "done")
    /\ pc' = "ready"
    /\ UNCHANGED req

NextSvg == SelectInterfaces \/ RunSequential \/ RunInPool \/ InvokeAgain

SpecSvg == InitSvg /\ [][NextSvg]_vars

(***************************************************************************)
(* Claims about svg_util (checked under SpecSvg).                          *)
(***************************************************************************)
\* the jobs of the request: the specifications get_interface resolves
Jobs == {j \in DOMAIN req.arg_specs : req.arg_specs[j].node}

Finished == pc \in {"done", "failed"}

\* C16: without --rewrite a job whose output file already exists is never
\* run and its file is left untouched, while every job whose output is
\* missing is run; with --rewrite every job is run; a second invocation
\* with identical inputs after a fully successful first one runs no job
\* and leaves the outputs identical.
C16_Resumable ==
    /\ ~req.rewrite => out.ran_existing = {}
    /\ Finished =>
           \A j \in Jobs :
               (req.rewrite \/ out.before[j] = "none") => out.runs[j] >= 1
    /\ (~req.rewrite /\ out.invocation > 1 /\ out.first_ok) =>
           /\ \A j \in Jobs : out.runs[j] = 0
           /\ out.files = out.before

\* C18: in one invocation, for every value of nthreads (1, greater than 1,
\* or unset), each selected interface is run exactly once: none is run
\* twice and none is skipped.
C18_EachInterfaceRunOnce ==
    pc = "done" =>
        \A j \in DOMAIN req.arg_specs :
            out.runs[j] = IF j \in Range(out.interfaces) THEN 1 ELSE 0

\* the same statement for nthreads other than 1
C18_PoolOnly ==
    req.nthreads # 1 => C18_EachInterfaceRunOnce

\* the same statement for the invocations that run through the pool only
C16_PoolOnly ==
    req.nthreads # 1 => C16_Resumable

====
